---- MODULE Spec2Model ----
(***************************************************************************)
(* The savings-goal backend of finflow: the Storage Gateway                *)
(* (models.py, class Database), the Goal and Transaction repositories      *)
(* (models.py) and the service layer with its derived metrics              *)
(* (services.py, class SavingsService).                                    *)
(*                                                                         *)
(* Callers are processes.  A service call is cut at its storage accesses:  *)
(* every Database.execute / execute_one / execute_insert call opens its    *)
(* own connection and commits one statement, and SQLite serialises the     *)
(* transactions of different connections, so one gateway call is one       *)
(* atomic step and callers interleave between the gateway calls of a       *)
(* service call.  The code that runs before the first gateway call of a    *)
(* service call (argument validation) touches no shared state and is part  *)
(* of the step of that first gateway call.                                 *)
(*                                                                         *)
(* Optional values are sequences of length at most one: <<>> is Python's   *)
(* None and <<v>> is the value v.  Strings are sequences of characters.    *)
(* Amounts are integers.  A percentage rounded to one decimal is held in   *)
(* tenths (1000 is 100.0).                                                 *)
(***************************************************************************)
EXTENDS Integers, Sequences, FiniteSets, TLC

\* Largest identifier the store assigns before the model stops inserting.
MaxId == 2
\* Last instant of the clock.
MaxClock == 1
\* Largest amount a caller passes.
MaxAmount == 2
\* Largest currentAmount a deposit may reach before the model stops depositing.
MaxTotal == 3

VARIABLES
  goals,      \* table SavingsGoal: id -> row
  trans,      \* table Transaction: id -> row
  now,        \* datetime.now()
  pc,         \* per caller: where it stands in its service call
  loc,        \* per caller: the arguments and locals of its service call
  openConns,  \* connections opened and not closed
  openTx,     \* transactions neither committed nor rolled back
  ev          \* the last step taken: who, what, with which failure, what came back

vars == <<goals, trans, now, pc, loc, openConns, openTx, ev>>

Procs == {"p1", "p2"}

None == <<>>
Some(v) == <<v>>

Max(S) == CHOOSE x \in S : \A y \in S : y <= x

RECURSIVE SumOver(_, _)
\* sum(f[x] for x in S)
SumOver(f, S) ==
  IF S = {} THEN 0
  ELSE LET x == CHOOSE y \in S : TRUE IN f[x] + SumOver(f, S \ {x})

(***************************************************************************)
(* Python built-ins the code uses.                                         *)
(***************************************************************************)
IsSpace(c) == c = " "

RECURSIVE LStrip(_)
LStrip(s) == IF s # <<>> /\ IsSpace(Head(s)) THEN LStrip(Tail(s)) ELSE s

RECURSIVE RStrip(_)
RStrip(s) ==
  IF s # <<>> /\ IsSpace(s[Len(s)]) THEN RStrip(SubSeq(s, 1, Len(s) - 1)) ELSE s

\* str.strip()
Strip(s) == RStrip(LStrip(s))

\* Truth value of an optional owner identifier: None and 0 are false.
Truthy(o) == o # None /\ o[1] # 0

\* round(n / d * 10) for d > 0, ties to even: Python's round(x, 1) in tenths.
RoundHalfEven(n, d) ==
  LET q == n \div d
      r == n - q * d
  IN  IF 2 * r < d THEN q
      ELSE IF 2 * r > d THEN q + 1
      ELSE IF q % 2 = 0 THEN q ELSE q + 1

(***************************************************************************)
(* Storage Gateway: class Database.                                        *)
(* A connection holds the committed database and its own pending copy.     *)
(* A gateway call is given the database, what the statement makes of it,   *)
(* the rows the statement yields and the step at which storage fails.      *)
(***************************************************************************)
FailPoints == {"none", "connect", "execute", "fetch", "commit"}

get_connection(db) ==
  [open |-> TRUE, intx |-> FALSE, committed |-> db, pending |-> db]

CurExecute(c, after) == [c EXCEPT !.pending = after, !.intx = TRUE]
ConnCommit(c) == [c EXCEPT !.committed = c.pending, !.intx = FALSE]
ConnRollback(c) == [c EXCEPT !.pending = c.committed, !.intx = FALSE]
ConnClose(c) == [c EXCEPT !.open = FALSE]

\* What a gateway call leaves behind and hands back.
Outcome(c, raised, rows, lastrowid) ==
  [db |-> c.committed, raised |-> raised, rows |-> rows, lastrowid |-> lastrowid,
   conns |-> IF c.open THEN 1 ELSE 0,
   txs |-> IF c.open /\ c.intx THEN 1 ELSE 0]

\* get_connection() raised: nothing was opened, the failure leaves the call.
NoConnection(db) ==
  [db |-> db, raised |-> TRUE, rows |-> <<>>, lastrowid |-> 0, conns |-> 0, txs |-> 0]

\* The except branch: conn.rollback(); conn.close(); raise
RollbackCloseRaise(c) == Outcome(ConnClose(ConnRollback(c)), TRUE, <<>>, 0)

\* The success path: conn.commit(); conn.close(); return
CommitCloseReturn(c, rows, lastrowid) ==
  Outcome(ConnClose(ConnCommit(c)), FALSE, rows, lastrowid)

Database_execute(db, after, rows, f) ==
  IF f = "connect" THEN NoConnection(db)
  ELSE LET c0 == get_connection(db) IN
    IF f = "execute" THEN RollbackCloseRaise(c0)
    ELSE LET c1 == CurExecute(c0, after)
             \* try: rows = cur.fetchall()  except Exception: rows = []
             got == IF f = "fetch" THEN <<>> ELSE rows
         IN  IF f = "commit" THEN RollbackCloseRaise(c1)
             ELSE CommitCloseReturn(c1, got, 0)

Database_execute_one(db, after, row, f) ==
  IF f = "connect" THEN NoConnection(db)
  ELSE LET c0 == get_connection(db) IN
    IF f = "execute" THEN RollbackCloseRaise(c0)
    ELSE LET c1 == CurExecute(c0, after) IN
      IF f \in {"fetch", "commit"} THEN RollbackCloseRaise(c1)
      ELSE CommitCloseReturn(c1, row, 0)

Database_execute_insert(db, after, newid, f) ==
  IF f = "connect" THEN NoConnection(db)
  ELSE LET c0 == get_connection(db) IN
    IF f = "execute" THEN RollbackCloseRaise(c0)
    ELSE LET c1 == CurExecute(c0, after) IN
      IF f = "commit" THEN RollbackCloseRaise(c1)
      ELSE CommitCloseReturn(c1, <<>>, newid)

DB == [goals |-> goals, trans |-> trans]

\* Table names the statements spell unquoted although SQLite reads them as
\* keywords: TRANSACTION is one, and not one SQLite accepts as an identifier.
ReservedWords == {"Transaction"}

\* cur.execute(query) prepares the statement before it runs it.
Prepares(table) == table \notin ReservedWords

\* The step at which a gateway call on this table fails, given the step at
\* which storage fails: a statement that does not prepare raises in
\* cur.execute, once the connection is there.
FailsAt(table, f) == IF f # "connect" /\ ~Prepares(table) THEN "execute" ELSE f

(***************************************************************************)
(* Goal repository: class SavingsGoal.  The statements, as what they make  *)
(* of the table.                                                           *)
(***************************************************************************)
\* SQLite's rowid for an INTEGER PRIMARY KEY inserted without id.
NextRowId(tbl) == IF DOMAIN tbl = {} THEN 1 ELSE Max(DOMAIN tbl) + 1

\* The name normalised before it is stored.
NewGoalRow_Stripped(id, name, target, deadline, user, t) ==
  [id |-> id, name |-> Strip(name), targetAmount |-> target, currentAmount |-> 0,
   deadline |-> deadline, userId |-> user, createdAt |-> t, updatedAt |-> t]

\* INSERT INTO SavingsGoal (...) VALUES (?, ?, 0, ?, ?, ?, ?) with (.., now, now)
NewGoalRow(id, name, target, deadline, user, t) ==
  [id |-> id, name |-> name, targetAmount |-> target, currentAmount |-> 0,
   deadline |-> deadline, userId |-> user, createdAt |-> t, updatedAt |-> t]

InsertGoal(tbl, name, target, deadline, user, t) ==
  LET id == NextRowId(tbl) IN
  [i \in DOMAIN tbl \cup {id} |->
     IF i = id THEN NewGoalRow(id, name, target, deadline, user, t) ELSE tbl[i]]

\* SELECT * FROM SavingsGoal WHERE id = ?  (fetchone)
SelectGoalById(tbl, id) == IF id \in DOMAIN tbl THEN Some(tbl[id]) ELSE None

\* A SET clause that always assigns deadline, supplied or not.
UpdateGoalRow_DeadlineAlways(row, name, target, current, deadline, t) ==
  [row EXCEPT
     !.name = IF name # None THEN name[1] ELSE @,
     !.targetAmount = IF target # None THEN target[1] ELSE @,
     !.currentAmount = IF current # None THEN current[1] ELSE @,
     !.deadline = deadline,
     !.updatedAt = t]

\* The SET clause update() builds: one assignment per argument that is not None.
UpdateGoalRow(row, name, target, current, deadline, t) ==
  [row EXCEPT
     !.name = IF name # None THEN name[1] ELSE @,
     !.targetAmount = IF target # None THEN target[1] ELSE @,
     !.currentAmount = IF current # None THEN current[1] ELSE @,
     !.deadline = IF deadline # None THEN deadline ELSE @,
     !.updatedAt = t]

\* UPDATE SavingsGoal SET ... WHERE id = ?
UpdateGoal(tbl, id, name, target, current, deadline, t) ==
  [i \in DOMAIN tbl |->
     IF i = id THEN UpdateGoalRow(tbl[i], name, target, current, deadline, t)
     ELSE tbl[i]]

\* A delete that leaves the row where it is.
DeleteGoal_Keeps(tbl, id) == tbl

\* DELETE FROM SavingsGoal WHERE id = ?
DeleteGoal(tbl, id) == [i \in DOMAIN tbl \ {id} |-> tbl[i]]

\* A deposit written as the new balance instead of an increment.
AddAmountRow_Overwrite(row, amount, t) ==
  [row EXCEPT !.currentAmount = amount, !.updatedAt = t]

\* SET currentAmount = currentAmount + ?, updatedAt = ?
AddAmountRow(row, amount, t) ==
  [row EXCEPT !.currentAmount = @ + amount, !.updatedAt = t]

\* UPDATE SavingsGoal SET currentAmount = currentAmount + ?, updatedAt = ? WHERE id = ?
AddAmount(tbl, id, amount, t) ==
  [i \in DOMAIN tbl |-> IF i = id THEN AddAmountRow(tbl[i], amount, t) ELSE tbl[i]]

\* The orders a SELECT ... ORDER BY key DESC may return the rows ids in:
\* rows with equal keys come in any order.
\* keyOf gives each row id its sort key.
DescOrders(ids, keyOf) ==
  {s \in [1 .. Cardinality(ids) -> ids] :
     /\ \A i, j \in DOMAIN s : i # j => s[i] # s[j]
     /\ \A i, j \in DOMAIN s : i < j => keyOf[s[i]] >= keyOf[s[j]]}

\* find_all: if user_id: ... WHERE userId = ? ORDER BY createdAt DESC
\*           else: all rows ORDER BY createdAt DESC
SelectGoals(tbl, user) ==
  LET ids == IF Truthy(user) THEN {i \in DOMAIN tbl : tbl[i].userId = user}
             ELSE DOMAIN tbl
  IN  {[k \in DOMAIN s |-> tbl[s[k]]] :
         s \in DescOrders(ids, [i \in DOMAIN tbl |-> tbl[i].createdAt])}

(***************************************************************************)
(* Transaction repository: class Transaction.                              *)
(***************************************************************************)
\* INSERT INTO Transaction (...) VALUES (?, ?, ?, ?, ?, ?, ?, ?) with (.., now, now)
NewTransRow(id, account, amount, category, description, date, type, t) ==
  [id |-> id, accountId |-> account, amount |-> amount, category |-> category,
   description |-> description, date |-> date, type |-> type,
   createdAt |-> t, updatedAt |-> t]

InsertTrans(tbl, account, amount, category, description, date, type, t) ==
  LET id == NextRowId(tbl) IN
  [i \in DOMAIN tbl \cup {id} |->
     IF i = id THEN NewTransRow(id, account, amount, category, description, date, type, t)
     ELSE tbl[i]]

\* SELECT * FROM Transaction WHERE id = ?  (fetchone)
SelectTransById(tbl, id) == IF id \in DOMAIN tbl THEN Some(tbl[id]) ELSE None

\* find_all(limit): SELECT * FROM Transaction ORDER BY date DESC LIMIT ?
SelectTrans(tbl, limit) ==
  {SubSeq([k \in DOMAIN s |-> tbl[s[k]]], 1, IF Len(s) < limit THEN Len(s) ELSE limit) :
     s \in DescOrders(DOMAIN tbl, [i \in DOMAIN tbl |-> tbl[i].date])}

(***************************************************************************)
(* Derived metrics: SavingsService.calculate_progress, get_summary and     *)
(* get_financial_data_for_ai, as functions of the rows they are given.     *)
(***************************************************************************)
\* sum(x for x in s)
SeqSum(s) == SumOver(s, DOMAIN s)

\* round(n / d * 100, 1) in tenths, for d # 0.
Percent10(n, d) ==
  IF d > 0 THEN RoundHalfEven(1000 * n, d) ELSE RoundHalfEven(-1000 * n, -d)

\* if target <= 0: progress = 0  else: progress = min(100, (current / target) * 100)
ProgressOf(target, current) ==
  IF target <= 0 THEN 0
  ELSE IF current >= target THEN 1000
  ELSE Percent10(current, target)

\* remaining = max(0, target - current)
RemainingOf(target, current) == IF target - current > 0 THEN target - current ELSE 0

\* is_complete = current >= target
IsCompleteOf(target, current) == current >= target

calculate_progress(goal) ==
  [goal |-> goal,
   progress |-> ProgressOf(goal.targetAmount, goal.currentAmount),
   remaining |-> RemainingOf(goal.targetAmount, goal.currentAmount),
   isComplete |-> IsCompleteOf(goal.targetAmount, goal.currentAmount)]

\* A goal counted as completed only once it is past its target.
OneIfComplete_Past(g) == IF g.currentAmount > g.targetAmount THEN 1 ELSE 0

\* 1 for g in goals if g['currentAmount'] >= g['targetAmount']
OneIfComplete(g) == IF g.currentAmount >= g.targetAmount THEN 1 ELSE 0

\* The guard letting a total of 0 through.
SummaryDivides_NonNegative(total_target) == total_target >= 0

\* if total_target > 0: the division is made
SummaryDivides(total_target) == total_target > 0

\* get_summary over the rows find_all returned; error names the exception the
\* arithmetic raises, if it does.
get_summary(rows) ==
  LET total_target == SeqSum([k \in DOMAIN rows |-> rows[k].targetAmount])
      total_current == SeqSum([k \in DOMAIN rows |-> rows[k].currentAmount])
      divides == SummaryDivides(total_target)
  IN  [error |-> IF divides /\ total_target = 0 THEN "ZeroDivisionError" ELSE "none",
       totalGoals |-> Len(rows),
       completedGoals |-> SeqSum([k \in DOMAIN rows |-> OneIfComplete(rows[k])]),
       totalTarget |-> total_target,
       totalCurrent |-> total_current,
       overallProgress |-> IF divides /\ total_target # 0
                           THEN Percent10(total_current, total_target) ELSE 0,
       goals |-> [k \in DOMAIN rows |-> calculate_progress(rows[k])]]

\* timedelta(days=months*30)
MonthDays == 30
\* Transaction.find_all(limit=1000)
TxLimit == 1000

\* cutoff_date = now - months * 30 days
CutoffDate(t, months) == t - months * MonthDays

\* [t for t in transactions if t['date'] >= cutoff_date]
RecentTrans(rows, cutoff) == SelectSeq(rows, LAMBDA r : r.date >= cutoff)

IncomeOf(r) == IF r.type = "INCOME" THEN r.amount ELSE 0
ExpenseOf(r) == IF r.type = "EXPENSE" THEN r.amount ELSE 0

\* expense_by_category[cat] = expense_by_category.get(cat, 0) + t['amount'],
\* for the rows of type EXPENSE
ExpenseByCategory(rows) ==
  LET ex == SelectSeq(rows, LAMBDA r : r.type = "EXPENSE")
      cats == {ex[k].category : k \in DOMAIN ex}
  IN  [c \in cats |->
         SumOver([k \in DOMAIN ex |-> IF ex[k].category = c THEN ex[k].amount ELSE 0],
                 DOMAIN ex)]

\* What the try block of get_financial_data_for_ai computes, or the except
\* branch's defaults when it raised.
TransTotals(failed, rows, cutoff) ==
  IF failed
  THEN [total_income |-> 0, total_expense |-> 0, expense_by_category |-> << >>]
  ELSE LET recent == RecentTrans(rows, cutoff) IN
       [total_income |-> SeqSum([k \in DOMAIN recent |-> IncomeOf(recent[k])]),
        total_expense |-> SeqSum([k \in DOMAIN recent |-> ExpenseOf(recent[k])]),
        expense_by_category |-> ExpenseByCategory(recent)]

\* The guard letting months = 0 through.
AvgDivides_NonNegative(months) == months >= 0

\* total / months if months > 0 else 0
AvgDivides(months) == months > 0

\* A monthly average, as the fraction num / den.
MonthlyAvg(total, months) ==
  IF AvgDivides(months) /\ months # 0 THEN [num |-> total, den |-> months]
  ELSE [num |-> 0, den |-> 1]

\* The report, from the goals read, the totals of the try block and months.
FinancialData(goalRows, totals, months) ==
  LET avg_expense == MonthlyAvg(totals.total_expense, months)
      avg_income == MonthlyAvg(totals.total_income, months)
  IN  [error |-> IF AvgDivides(months) /\ months = 0 THEN "ZeroDivisionError" ELSE "none",
       total_income |-> totals.total_income,
       total_expense |-> totals.total_expense,
       monthly_avg_income |-> avg_income,
       monthly_avg_expense |-> avg_expense,
       current_savings |-> SeqSum([k \in DOMAIN goalRows |-> goalRows[k].currentAmount]),
       savings_goals |-> goalRows,
       expense_by_category |-> totals.expense_by_category,
       period_months |-> months,
       monthly_income |-> avg_income,
       monthly_expense |-> avg_expense,
       other_goals |-> goalRows]

(***************************************************************************)
(* Callers.                                                                *)
(***************************************************************************)
Args(id, name, target, current, deadline, user, amount, months) ==
  [id |-> id, name |-> name, target |-> target, current |-> current,
   deadline |-> deadline, user |-> user, amount |-> amount, months |-> months]

NoArgs == Args(0, None, None, None, None, None, 0, 0)

\* The arguments of a step that is told by the identifier alone.
OfId(id) == [NoArgs EXCEPT !.id = id]

NoLoc == [args |-> NoArgs, got |-> <<>>]

Event(p, op, step, args, f, raised, status, ret) ==
  [proc |-> p, op |-> op, step |-> step, args |-> args, fail |-> f,
   raised |-> raised, status |-> status, ret |-> ret]

\* The caller's call is over: it returned or raised.
Finish(p) == /\ pc' = [pc EXCEPT ![p] = "idle"]
             /\ loc' = [loc EXCEPT ![p] = NoLoc]

\* The caller goes on to the next storage access of its call.
Goto(p, at, l) == /\ pc' = [pc EXCEPT ![p] = at]
                  /\ loc' = [loc EXCEPT ![p] = l]

\* What a gateway call did to the store and to the connections.
Stored(o) == /\ goals' = o.db.goals
             /\ trans' = o.db.trans
             /\ openConns' = openConns + o.conns
             /\ openTx' = openTx + o.txs

NoStorage == UNCHANGED <<goals, trans, openConns, openTx>>

Init ==
  /\ goals = << >>
  /\ trans = << >>
  /\ now = 0
  /\ pc = [p \in Procs |-> "idle"]
  /\ loc = [p \in Procs |-> NoLoc]
  /\ openConns = 0
  /\ openTx = 0
  /\ ev = Event("none", "init", "init", NoArgs, "none", FALSE, "ok", <<>>)

\* Time passes between any two steps.
Tick == /\ now < MaxClock
        /\ now' = now + 1
        /\ UNCHANGED <<goals, trans, pc, loc, openConns, openTx, ev>>

(***************************************************************************)
(* SavingsService.create_goal, then SavingsGoal.create: INSERT, reload.    *)
(***************************************************************************)
\* The name checked for emptiness only, not stripped first.
CreateGoalInvalid_NoStrip(name, target) == name = <<>> \/ target <= 0

\* if not name or not name.strip(): raise / if target_amount <= 0: raise
CreateGoalInvalid(name, target) == name = <<>> \/ Strip(name) = <<>> \/ target <= 0

CreateGoal(p, name, target, deadline, user, f) ==
  LET a == Args(0, Some(name), Some(target), None, deadline, user, 0, 0) IN
  /\ pc[p] = "idle"
  /\ UNCHANGED now
  /\ IF CreateGoalInvalid(name, target)
     THEN /\ f = "none"
          /\ ev' = Event(p, "create_goal", "validate", a, f, TRUE, "ValidationError", <<>>)
          /\ NoStorage
          /\ Finish(p)
     ELSE /\ NextRowId(goals) <= MaxId
          /\ f # "fetch"
          /\ LET id == NextRowId(goals)
                 after == [DB EXCEPT !.goals = InsertGoal(goals, name, target, deadline, user, now)]
                 o == Database_execute_insert(DB, after, id, f)
             IN /\ Stored(o)
                /\ IF o.raised
                   THEN /\ ev' = Event(p, "create_goal", "insert", a, f, TRUE, "StorageError", <<>>)
                        /\ Finish(p)
                   ELSE /\ ev' = Event(p, "create_goal", "insert", [a EXCEPT !.id = o.lastrowid],
                                       f, FALSE, "pending", <<>>)
                        /\ Goto(p, "create_reload", [args |-> [a EXCEPT !.id = o.lastrowid], got |-> <<>>])

\* return SavingsGoal.find_by_id(new_id)
CreateGoalReload(p, f) ==
  /\ pc[p] = "create_reload"
  /\ UNCHANGED now
  /\ LET a == loc[p].args
         o == Database_execute_one(DB, DB, SelectGoalById(goals, a.id), f)
     IN /\ Stored(o)
        /\ ev' = Event(p, "create_goal", "reload", OfId(a.id), f, o.raised,
                       IF o.raised THEN "StorageError" ELSE "ok", o.rows)
        /\ Finish(p)

(***************************************************************************)
(* SavingsService.update_goal: lookup, then SavingsGoal.update: UPDATE,    *)
(* reload.                                                                 *)
(***************************************************************************)
\* A lookup whose result is never checked.
NotFound_Unchecked(row) == FALSE

\* if not goal: raise ValueError
NotFound(row) == row = None

UpdateGoalLookup(p, id, name, target, current, deadline, f) ==
  LET a == Args(id, name, target, current, deadline, None, 0, 0)
      e == OfId(id)
  IN
  /\ pc[p] = "idle"
  /\ UNCHANGED now
  /\ LET o == Database_execute_one(DB, DB, SelectGoalById(goals, id), f) IN
     /\ Stored(o)
     /\ IF o.raised
        THEN /\ ev' = Event(p, "update_goal", "lookup", e, f, TRUE, "StorageError", <<>>)
             /\ Finish(p)
        ELSE IF NotFound(o.rows)
        THEN /\ ev' = Event(p, "update_goal", "lookup", e, f, TRUE, "NotFoundError", <<>>)
             /\ Finish(p)
        ELSE /\ ev' = Event(p, "update_goal", "lookup", e, f, FALSE, "pending", <<>>)
             /\ Goto(p, "update_write", [args |-> a, got |-> o.rows])

\* The write as a read-compute-write of the full row: the row the lookup
\* read, with the supplied fields replaced, is stored whole.
UpdateGoalWrite_FullRow(p, f) ==
  /\ pc[p] = "update_write"
  /\ f # "fetch"
  /\ UNCHANGED now
  /\ LET a == loc[p].args
         row == UpdateGoalRow(loc[p].got[1], a.name, a.target, a.current, a.deadline, now)
         after == [DB EXCEPT !.goals = [i \in DOMAIN goals |-> IF i = a.id THEN row ELSE goals[i]]]
         o == Database_execute(DB, after, <<>>, f)
     IN /\ Stored(o)
        /\ IF o.raised
           THEN /\ ev' = Event(p, "update_goal", "write", OfId(a.id), f, TRUE, "StorageError", <<>>)
                /\ Finish(p)
           ELSE /\ ev' = Event(p, "update_goal", "write", OfId(a.id), f, FALSE, "pending", <<>>)
                /\ Goto(p, "update_reload", loc[p])

UpdateGoalWrite(p, f) ==
  /\ pc[p] = "update_write"
  /\ f # "fetch"
  /\ UNCHANGED now
  /\ LET a == loc[p].args
         after == [DB EXCEPT !.goals =
                     UpdateGoal(goals, a.id, a.name, a.target, a.current, a.deadline, now)]
         o == Database_execute(DB, after, <<>>, f)
     IN /\ Stored(o)
        /\ IF o.raised
           THEN /\ ev' = Event(p, "update_goal", "write", OfId(a.id), f, TRUE, "StorageError", <<>>)
                /\ Finish(p)
           ELSE /\ ev' = Event(p, "update_goal", "write", OfId(a.id), f, FALSE, "pending", <<>>)
                /\ Goto(p, "update_reload", loc[p])

UpdateGoalReload(p, f) ==
  /\ pc[p] = "update_reload"
  /\ UNCHANGED now
  /\ LET a == loc[p].args
         o == Database_execute_one(DB, DB, SelectGoalById(goals, a.id), f)
     IN /\ Stored(o)
        /\ ev' = Event(p, "update_goal", "reload", OfId(a.id), f, o.raised,
                       IF o.raised THEN "StorageError" ELSE "ok", o.rows)
        /\ Finish(p)

(***************************************************************************)
(* SavingsService.delete_goal: lookup, then SavingsGoal.delete: DELETE.    *)
(***************************************************************************)
DeleteGoalLookup(p, id, f) ==
  LET a == [NoArgs EXCEPT !.id = id] IN
  /\ pc[p] = "idle"
  /\ UNCHANGED now
  /\ LET o == Database_execute_one(DB, DB, SelectGoalById(goals, id), f) IN
     /\ Stored(o)
     /\ IF o.raised
        THEN /\ ev' = Event(p, "delete_goal", "lookup", a, f, TRUE, "StorageError", <<>>)
             /\ Finish(p)
        ELSE IF NotFound(o.rows)
        THEN /\ ev' = Event(p, "delete_goal", "lookup", a, f, TRUE, "NotFoundError", <<>>)
             /\ Finish(p)
        ELSE /\ ev' = Event(p, "delete_goal", "lookup", a, f, FALSE, "pending", <<>>)
             /\ Goto(p, "delete_write", [args |-> a, got |-> o.rows])

DeleteGoalWrite(p, f) ==
  /\ pc[p] = "delete_write"
  /\ f # "fetch"
  /\ UNCHANGED now
  /\ LET a == loc[p].args
         after == [DB EXCEPT !.goals = DeleteGoal(goals, a.id)]
         o == Database_execute(DB, after, <<>>, f)
     IN /\ Stored(o)
        /\ ev' = Event(p, "delete_goal", "write", a, f, o.raised,
                       IF o.raised THEN "StorageError" ELSE "ok", <<>>)
        /\ Finish(p)

(***************************************************************************)
(* SavingsService.add_amount_to_goal, then SavingsGoal.add_amount: UPDATE, *)
(* reload.                                                                 *)
(***************************************************************************)
\* if amount <= 0: raise
AddAmountInvalid(amount) == amount <= 0

AddAmountToGoal(p, id, amount, f) ==
  LET a == [NoArgs EXCEPT !.id = id, !.amount = amount] IN
  /\ pc[p] = "idle"
  /\ UNCHANGED now
  /\ IF AddAmountInvalid(amount)
     THEN /\ f = "none"
          /\ ev' = Event(p, "add_amount_to_goal", "validate", a, f, TRUE, "ValidationError", <<>>)
          /\ NoStorage
          /\ Finish(p)
     ELSE /\ id \in DOMAIN goals => goals[id].currentAmount + amount <= MaxTotal
          /\ f # "fetch"
          /\ LET after == [DB EXCEPT !.goals = AddAmount(goals, id, amount, now)]
                 o == Database_execute(DB, after, <<>>, f)
             IN /\ Stored(o)
                /\ IF o.raised
                   THEN /\ ev' = Event(p, "add_amount_to_goal", "write", a, f, TRUE, "StorageError", <<>>)
                        /\ Finish(p)
                   ELSE /\ ev' = Event(p, "add_amount_to_goal", "write", a, f, FALSE, "pending", <<>>)
                        /\ Goto(p, "add_reload", [args |-> a, got |-> <<>>])

AddAmountReload(p, f) ==
  /\ pc[p] = "add_reload"
  /\ UNCHANGED now
  /\ LET a == loc[p].args
         o == Database_execute_one(DB, DB, SelectGoalById(goals, a.id), f)
     IN /\ Stored(o)
        /\ ev' = Event(p, "add_amount_to_goal", "reload", OfId(a.id), f, o.raised,
                       IF o.raised THEN "StorageError" ELSE "ok", o.rows)
        /\ Finish(p)

(***************************************************************************)
(* SavingsService.get_summary: find_all, then the arithmetic.              *)
(***************************************************************************)
GetSummary(p, user, f) ==
  LET a == [NoArgs EXCEPT !.user = user] IN
  /\ pc[p] = "idle"
  /\ UNCHANGED now
  /\ \E rows \in SelectGoals(goals, user) :
       LET o == Database_execute(DB, DB, rows, f) IN
       /\ Stored(o)
       /\ Finish(p)
       /\ IF o.raised
          THEN ev' = Event(p, "get_summary", "find_all", a, f, TRUE, "StorageError", <<>>)
          ELSE LET r == get_summary(o.rows) IN
               ev' = Event(p, "get_summary", "find_all", a, f, r.error # "none",
                           IF r.error # "none" THEN r.error ELSE "ok", <<r>>)

(***************************************************************************)
(* Transaction.create: INSERT, reload.                                     *)
(***************************************************************************)
TransactionCreate(p, account, amount, category, description, date, type, f) ==
  /\ pc[p] = "idle"
  /\ UNCHANGED now
  /\ f # "fetch"
  /\ LET id == NextRowId(trans)
         after == [DB EXCEPT !.trans =
                     InsertTrans(trans, account, amount, category, description, date, type, now)]
         o == Database_execute_insert(DB, after, id, FailsAt("Transaction", f))
     IN /\ Stored(o)
        /\ IF o.raised
           THEN /\ ev' = Event(p, "Transaction.create", "insert", NoArgs, f, TRUE, "StorageError", <<>>)
                /\ Finish(p)
           ELSE /\ ev' = Event(p, "Transaction.create", "insert", OfId(o.lastrowid), f, FALSE, "pending", <<>>)
                /\ Goto(p, "trans_reload", [args |-> OfId(o.lastrowid), got |-> <<>>])

TransactionCreateReload(p, f) ==
  /\ pc[p] = "trans_reload"
  /\ UNCHANGED now
  /\ LET a == loc[p].args
         o == Database_execute_one(DB, DB, SelectTransById(trans, a.id),
                                   FailsAt("Transaction", f))
     IN /\ Stored(o)
        /\ ev' = Event(p, "Transaction.create", "reload", a, f, o.raised,
                       IF o.raised THEN "StorageError" ELSE "ok", o.rows)
        /\ Finish(p)

(***************************************************************************)
(* SavingsService.get_financial_data_for_ai: the goals' find_all, then the *)
(* try block around the transactions' find_all, then the arithmetic.       *)
(***************************************************************************)
ReportGoals(p, user, months, f) ==
  LET a == [NoArgs EXCEPT !.user = user, !.months = months] IN
  /\ pc[p] = "idle"
  /\ UNCHANGED now
  /\ \E rows \in SelectGoals(goals, user) :
       LET o == Database_execute(DB, DB, rows, f) IN
       /\ Stored(o)
       /\ IF o.raised
          THEN /\ ev' = Event(p, "get_financial_data_for_ai", "goals", a, f, TRUE, "StorageError", <<>>)
               /\ Finish(p)
          ELSE /\ ev' = Event(p, "get_financial_data_for_ai", "goals", a, f, FALSE, "pending", <<>>)
               /\ Goto(p, "report_trans", [args |-> a, got |-> o.rows])

\* No except clause: the failure leaves the call.
Catches_Nothing(raised) == FALSE

\* except Exception as e: every failure raised inside the try block is caught.
Catches(raised) == raised

ReportTrans(p, f) ==
  /\ pc[p] = "report_trans"
  /\ UNCHANGED now
  /\ \E rows \in SelectTrans(trans, TxLimit) :
       LET a == loc[p].args
           o == Database_execute(DB, DB, rows, FailsAt("Transaction", f))
           caught == Catches(o.raised)
           totals == TransTotals(caught, o.rows, CutoffDate(now, a.months))
           r == FinancialData(loc[p].got, totals, a.months)
       IN /\ Stored(o)
          /\ Finish(p)
          /\ IF o.raised /\ ~caught
             THEN ev' = Event(p, "get_financial_data_for_ai", "transactions", a, f, TRUE,
                              "StorageError", <<>>)
             ELSE ev' = Event(p, "get_financial_data_for_ai", "transactions", a, f,
                              r.error # "none",
                              IF r.error # "none" THEN r.error ELSE "ok", <<r>>)

(***************************************************************************)
(* What callers pass.                                                      *)
(***************************************************************************)
Blank == {<<>>, <<" ">>}
Ids == 1 .. MaxId + 1
\* Largest number of transactions stored before the model stops inserting.
MaxTrans == 2

\* One caller, storage that does not fail: amounts and owners vary.
Next ==
  \E p \in {"p1"}, f \in {"none"} :
       \/ \E n \in Blank \cup {<<" ", "a">>}, t \in 0 .. MaxAmount, u \in {None, Some(1)} :
            /\ (n \in Blank => t = 1 /\ u = None)
            /\ CreateGoal(p, n, t, None, u, f)
       \/ CreateGoalReload(p, f)
       \/ \E id \in Ids, t \in {None, Some(-1)}, c \in {None, Some(-1)} :
            UpdateGoalLookup(p, id, None, t, c, None, f)
       \/ UpdateGoalWrite(p, f)
       \/ UpdateGoalReload(p, f)
       \/ \E id \in Ids : DeleteGoalLookup(p, id, f)
       \/ DeleteGoalWrite(p, f)
       \/ \E id \in Ids, a \in 0 .. MaxAmount : AddAmountToGoal(p, id, a, f)
       \/ AddAmountReload(p, f)
       \/ \E u \in {None, Some(1)} : GetSummary(p, u, f)

Spec == Init /\ [][Next]_vars

\* One caller, storage that does not fail: names, deadlines, owners and times
\* vary (a goal created with a deadline is created with an owner).
NextFields ==
  \/ Tick
  \/ \E p \in {"p1"}, f \in {"none"} :
       \/ \E d \in {None, Some(1)} : CreateGoal(p, <<" ", "a">>, 1, d, d, f)
       \/ CreateGoalReload(p, f)
       \/ \E id \in Ids, n \in {None, Some(<<"b">>)}, t \in {None, Some(2)},
             c \in {None, Some(1)}, d \in {None, Some(1)} :
            UpdateGoalLookup(p, id, n, t, c, d, f)
       \/ UpdateGoalWrite(p, f)
       \/ UpdateGoalReload(p, f)
       \/ \E id \in Ids : DeleteGoalLookup(p, id, f)
       \/ DeleteGoalWrite(p, f)

SpecFields == Init /\ [][NextFields]_vars

\* One caller, storage that does not fail, a clock that moves: goals are
\* created, corrected, deposited into and deleted.
NextLifecycle ==
  \/ Tick
  \/ \E p \in {"p1"}, f \in {"none"} :
       \/ CreateGoal(p, <<" ", "a">>, 1, None, None, f)
       \/ CreateGoalReload(p, f)
       \/ \E id \in Ids : UpdateGoalLookup(p, id, None, None, Some(1), None, f)
       \/ UpdateGoalWrite(p, f)
       \/ UpdateGoalReload(p, f)
       \/ \E id \in Ids : DeleteGoalLookup(p, id, f)
       \/ DeleteGoalWrite(p, f)
       \/ \E id \in Ids : AddAmountToGoal(p, id, 1, f)
       \/ AddAmountReload(p, f)

SpecLifecycle == Init /\ [][NextLifecycle]_vars

\* One caller, storage that does not fail: goals of an owner and of nobody,
\* summaries asked with the filter absent, naming an owner, and 0.
NextOwners ==
  \E p \in {"p1"}, f \in {"none"} :
       \/ \E u \in {None, Some(1)} : CreateGoal(p, <<" ", "a">>, 1, None, u, f)
       \/ CreateGoalReload(p, f)
       \/ \E id \in Ids : AddAmountToGoal(p, id, 1, f)
       \/ AddAmountReload(p, f)
       \/ \E u \in {None, Some(0), Some(1)} : GetSummary(p, u, f)

SpecOwners == Init /\ [][NextOwners]_vars

\* Concurrent callers depositing; a deposit's commit may fail.
NextDeposits ==
  \E p \in Procs, f \in {"none", "commit"} :
       \/ \E t \in 1 .. MaxAmount : CreateGoal(p, <<" ", "a">>, t, None, None, f)
       \/ CreateGoalReload(p, f)
       \/ \E id \in Ids, a \in 0 .. MaxAmount : AddAmountToGoal(p, id, a, f)
       \/ AddAmountReload(p, f)

SpecDeposits == Init /\ [][NextDeposits]_vars

\* One caller, storage that may fail at any step of any gateway call.
NextGateway ==
  \E p \in {"p1"}, f \in FailPoints :
       \/ CreateGoal(p, <<" ", "a">>, 1, None, None, f)
       \/ CreateGoalReload(p, f)
       \/ \E id \in Ids : UpdateGoalLookup(p, id, None, None, Some(1), None, f)
       \/ UpdateGoalWrite(p, f)
       \/ UpdateGoalReload(p, f)
       \/ \E id \in Ids : DeleteGoalLookup(p, id, f)
       \/ DeleteGoalWrite(p, f)
       \/ \E id \in Ids : AddAmountToGoal(p, id, 1, f)
       \/ AddAmountReload(p, f)
       \/ GetSummary(p, None, f)
       \/ ReportGoals(p, None, 1, f)
       \/ ReportTrans(p, f)

SpecGateway == Init /\ [][NextGateway]_vars

\* Concurrent callers creating and updating goals, one field an update.
NextUpdates ==
  \E p \in Procs, f \in {"none"} :
       \/ CreateGoal(p, <<" ", "a">>, 1, None, None, f)
       \/ CreateGoalReload(p, f)
       \/ \E id \in Ids, n \in {None, Some(<<"b">>)}, t \in {None, Some(2)} :
            /\ (n = None) # (t = None)
            /\ UpdateGoalLookup(p, id, n, t, None, None, f)
       \/ UpdateGoalWrite(p, f)
       \/ UpdateGoalReload(p, f)

SpecUpdates == Init /\ [][NextUpdates]_vars

\* Concurrent callers creating, updating and deleting goals.
NextRaces ==
  \E p \in Procs, f \in {"none"} :
       \/ CreateGoal(p, <<" ", "a">>, 1, None, None, f)
       \/ CreateGoalReload(p, f)
       \/ \E id \in Ids, n \in {None, Some(<<"b">>)}, t \in {None, Some(2)} :
            /\ (n = None) # (t = None)
            /\ UpdateGoalLookup(p, id, n, t, None, None, f)
       \/ UpdateGoalWrite(p, f)
       \/ UpdateGoalReload(p, f)
       \/ \E id \in Ids : DeleteGoalLookup(p, id, f)
       \/ DeleteGoalWrite(p, f)

SpecRaces == Init /\ [][NextRaces]_vars

\* The transactions a database file may hold when the program opens it
\* (db_path names a file the program does not create): dated inside or
\* outside a one-month window, of either type.
TransRows ==
  [amount : 1 .. MaxAmount, category : {Some("Food"), Some("Rent")},
   date : {-MonthDays - 1, 0}, type : {"INCOME", "EXPENSE"}]

TransTables ==
  UNION {[1 .. n -> TransRows] : n \in 0 .. MaxTrans}

\* The state after construction, over a database file that holds
\* transactions already.
InitReport ==
  /\ goals = << >>
  /\ \E t \in TransTables :
       trans = [i \in DOMAIN t |->
                  NewTransRow(i, None, t[i].amount, t[i].category, <<>>, t[i].date,
                              t[i].type, 0)]
  /\ now = 0
  /\ pc = [p \in Procs |-> "idle"]
  /\ loc = [p \in Procs |-> NoLoc]
  /\ openConns = 0
  /\ openTx = 0
  /\ ev = Event("none", "init", "init", NoArgs, "none", FALSE, "ok", <<>>)

\* One caller reporting over goals and transactions; the transactions'
\* retrieval may fail at any step.  Transaction.create never gets past its
\* INSERT.
NextReport ==
  \E p \in {"p1"} :
       \/ CreateGoal(p, <<" ", "a">>, 1, None, None, "none")
       \/ CreateGoalReload(p, "none")
       \/ AddAmountToGoal(p, 1, MaxAmount, "none")
       \/ AddAmountReload(p, "none")
       \/ TransactionCreate(p, None, 1, Some("Food"), <<>>, 0, "EXPENSE", "none")
       \/ \E m \in {-1, 0, 1} : ReportGoals(p, None, m, "none")
       \/ \E f \in FailPoints : ReportTrans(p, f)

SpecReport == InitReport /\ [][NextReport]_vars

(***************************************************************************)
(* Properties.                                                             *)
(***************************************************************************)
\* The amount caller p deposits into goal g in this step: its UPDATE was
\* committed and it goes on to reload the goal.
DepositedBy(p, g) ==
  IF pc[p] = "idle" /\ pc'[p] = "add_reload" /\ loc'[p].args.id = g
  THEN loc'[p].args.amount ELSE 0

\* C1: under concurrent add_amount_to_goal calls, every step leaves each
\* stored goal stored and changes its currentAmount by exactly the amounts of
\* the deposits committed in that step (none in a step that is no deposit,
\* a failed one included), so that the stored currentAmount is its former
\* value plus the sum of the applied amounts, and it never decreases.
C1_DepositsAddUp ==
  [][\A g \in DOMAIN goals :
       /\ g \in DOMAIN goals'
       /\ goals'[g].currentAmount =
            goals[g].currentAmount + SumOver([p \in Procs |-> DepositedBy(p, g)], Procs)
       /\ goals'[g].currentAmount >= goals[g].currentAmount]_vars

\* Both callers are between their deposit into the same goal and its reload,
\* and the goal holds both amounts.
C1_Witness ==
  \E g \in DOMAIN goals :
    /\ pc["p1"] = "add_reload" /\ pc["p2"] = "add_reload"
    /\ loc["p1"].args.id = g /\ loc["p2"].args.id = g
    /\ loc["p1"].args.amount # loc["p2"].args.amount
    /\ goals[g].currentAmount = loc["p1"].args.amount + loc["p2"].args.amount

\* C2: between gateway calls no connection is open and no transaction is
\* uncommitted; a gateway call in which a step failed raises to its caller
\* and leaves the store as it was.
C2_GatewayFailureSurfaces ==
  /\ [](openConns = 0 /\ openTx = 0)
  /\ [][ev'.fail # "none" => ev'.raised /\ goals' = goals /\ trans' = trans]_vars

\* C3: calculate_progress of every stored goal gives a progress within
\* [0, 100], a remaining >= 0 and, when currentAmount > targetAmount,
\* a progress of exactly 100 and a remaining of exactly 0.
C3_ProgressInRange ==
  \A g \in DOMAIN goals :
    LET r == calculate_progress(goals[g]) IN
    /\ r.progress >= 0 /\ r.progress <= 1000
    /\ r.remaining >= 0
    /\ goals[g].currentAmount > goals[g].targetAmount =>
         r.progress = 1000 /\ r.remaining = 0

\* A name that is empty or holds whitespace only.
IsBlank(name) == \A i \in DOMAIN name : name[i] = " "

\* C4: a create_goal call with a blank name or a targetAmount <= 0, and an
\* add_amount_to_goal call with an amount <= 0, ends in a validation error
\* in the step it is made, and that step leaves both tables as they were.
C4_InvalidInputRejected ==
  [][(\/ /\ ev'.op = "create_goal"
         /\ ev'.step \in {"validate", "insert"}
         /\ IsBlank(ev'.args.name[1]) \/ ev'.args.target[1] <= 0
      \/ /\ ev'.op = "add_amount_to_goal"
         /\ ev'.step \in {"validate", "write"}
         /\ ev'.args.amount <= 0)
     => /\ ev'.status = "ValidationError"
        /\ goals' = goals
        /\ trans' = trans
        /\ pc'[ev'.proc] = "idle"]_vars

\* A whitespace-only name was rejected while a goal was stored.
C4_Witness ==
  /\ ev.op = "create_goal" /\ ev.status = "ValidationError"
  /\ ev.args.name = Some(<<" ">>) /\ ev.args.target[1] > 0
  /\ goals # << >>

\* C5: an update_goal or delete_goal call whose identifier is not stored
\* ends in a not-found error at its lookup; the caller issues no further
\* statement and the lookup step leaves the table as it was.
C5_AbsentGoalNotFound ==
  [][(/\ ev'.op \in {"update_goal", "delete_goal"}
      /\ ev'.step = "lookup"
      /\ ev'.fail = "none"
      /\ ev'.args.id \notin DOMAIN goals)
     => /\ ev'.status = "NotFoundError"
        /\ pc'[ev'.proc] = "idle"
        /\ goals' = goals]_vars

\* A delete of an identifier that is not stored was refused while another
\* goal was stored.
C5_Witness ==
  /\ ev.op = "delete_goal" /\ ev.status = "NotFoundError"
  /\ ev.args.id \notin DOMAIN goals
  /\ goals # << >>

\* C6: the UPDATE of update_goal rewrites, in the goal it names, the fields
\* that were supplied and updatedAt (set to the time of the update, never
\* earlier than before); name, targetAmount, currentAmount and deadline keep
\* their values when not supplied, id, createdAt and the owner are kept, and
\* every other goal is unchanged.
C6_UpdateKeepsUnsuppliedFields ==
  [][\A p \in Procs :
       pc[p] = "update_write" /\ pc'[p] = "update_reload" =>
         LET a == loc[p].args IN
         /\ DOMAIN goals' = DOMAIN goals
         /\ \A g \in DOMAIN goals :
              IF g # a.id THEN goals'[g] = goals[g]
              ELSE /\ goals'[g].name = IF a.name = None THEN goals[g].name ELSE a.name[1]
                   /\ goals'[g].targetAmount =
                        IF a.target = None THEN goals[g].targetAmount ELSE a.target[1]
                   /\ goals'[g].currentAmount =
                        IF a.current = None THEN goals[g].currentAmount ELSE a.current[1]
                   /\ goals'[g].deadline =
                        IF a.deadline = None THEN goals[g].deadline ELSE a.deadline
                   /\ goals'[g].id = goals[g].id
                   /\ goals'[g].createdAt = goals[g].createdAt
                   /\ goals'[g].userId = goals[g].userId
                   /\ goals'[g].updatedAt = now
                   /\ goals'[g].updatedAt >= goals[g].updatedAt]_vars

\* An update that supplied current_amount only has been written, later than
\* the goal was created, beside another goal.
C6_Witness ==
  /\ pc["p1"] = "update_reload"
  /\ LET a == loc["p1"].args IN
     /\ a.current = Some(1) /\ a.name = None /\ a.target = None /\ a.deadline = None
     /\ a.id \in DOMAIN goals
     /\ goals[a.id].currentAmount = 1
     /\ goals[a.id].name = <<" ", "a">>
     /\ goals[a.id].deadline = Some(1)
     /\ goals[a.id].updatedAt > goals[a.id].createdAt
  /\ Cardinality(DOMAIN goals) = 2

\* The row r is what create_goal was asked to store under a.
AsCreated(r, a) ==
  /\ r.id = a.id
  /\ r.currentAmount = 0
  /\ r.name = a.name[1]
  /\ r.targetAmount = a.target[1]
  /\ r.deadline = a.deadline
  /\ r.userId = a.user
  /\ r.createdAt = r.updatedAt

\* C7: the INSERT of create_goal stores, under an identifier no stored goal
\* has, a row with currentAmount 0, the name, targetAmount, deadline and
\* owner passed in and createdAt = updatedAt, leaving the other goals as
\* they were; the find_by_id that follows with nothing in between returns
\* that row.
C7_CreateThenRead ==
  [][\A p \in Procs :
       /\ pc[p] = "idle" /\ pc'[p] = "create_reload" =>
            LET a == loc'[p].args IN
            /\ a.id \notin DOMAIN goals
            /\ DOMAIN goals' = DOMAIN goals \cup {a.id}
            /\ AsCreated(goals'[a.id], a)
            /\ \A g \in DOMAIN goals : goals'[g] = goals[g]
       /\ pc[p] = "create_reload" /\ pc'[p] = "idle" /\ ev'.status = "ok" =>
            /\ ev'.ret # None
            /\ AsCreated(ev'.ret[1], loc[p].args)]_vars

\* A second goal, with a deadline and an owner, was created after the clock
\* moved and read back.
C7_Witness ==
  /\ ev.op = "create_goal" /\ ev.step = "reload" /\ ev.status = "ok"
  /\ ev.ret # None
  /\ ev.ret[1].id = 2 /\ ev.ret[1].deadline = Some(1) /\ ev.ret[1].createdAt > 0
  /\ 1 \in DOMAIN goals

Range(s) == {s[k] : k \in DOMAIN s}

\* C9: when the retrieval of the transactions fails, whatever the step,
\* get_financial_data_for_ai returns: zero totals, no category, zero
\* monthly averages, and the goals read, with their currentAmounts summed.
C9_ReportSurvivesRetrievalFailure ==
  (ev.op = "get_financial_data_for_ai" /\ ev.step = "transactions" /\ ev.fail # "none") =>
    /\ ev.status = "ok"
    /\ LET r == ev.ret[1] IN
       /\ r.total_income = 0 /\ r.total_expense = 0
       /\ DOMAIN r.expense_by_category = {}
       /\ r.monthly_avg_income.num = 0 /\ r.monthly_avg_expense.num = 0
       /\ r.monthly_income.num = 0 /\ r.monthly_expense.num = 0
       /\ r.current_savings = SumOver([g \in DOMAIN goals |-> goals[g].currentAmount], DOMAIN goals)
       /\ Len(r.savings_goals) = Cardinality(DOMAIN goals)
       /\ Range(r.savings_goals) = {goals[g] : g \in DOMAIN goals}
       /\ r.other_goals = r.savings_goals

\* The statement failed while transactions were stored, and the report came
\* back with the savings of two goals.
C9_Witness ==
  /\ ev.op = "get_financial_data_for_ai" /\ ev.step = "transactions"
  /\ ev.fail = "execute" /\ ev.status = "ok"
  /\ trans # << >>
  /\ Len(ev.ret[1].savings_goals) = 2
  /\ ev.ret[1].current_savings > 0

\* C10: with months = 0 the report comes back with monthly averages of 0,
\* whatever transactions are stored; with no transaction stored it comes
\* back with zero totals and no category, whatever months is.
C10_ReportZeroMonthsNoTransactions ==
  (ev.op = "get_financial_data_for_ai" /\ ev.step = "transactions") =>
    /\ ev.args.months = 0 =>
         /\ ev.status = "ok"
         /\ ev.ret[1].monthly_avg_income.num = 0 /\ ev.ret[1].monthly_avg_expense.num = 0
         /\ ev.ret[1].monthly_income.num = 0 /\ ev.ret[1].monthly_expense.num = 0
    /\ trans = << >> =>
         /\ ev.status = "ok"
         /\ ev.ret[1].total_income = 0 /\ ev.ret[1].total_expense = 0
         /\ DOMAIN ev.ret[1].expense_by_category = {}

\* A report over months = 0 came back while an income and an expense dated
\* now were stored.
C10_Witness ==
  /\ ev.op = "get_financial_data_for_ai" /\ ev.step = "transactions"
  /\ ev.args.months = 0 /\ ev.status = "ok" /\ ev.fail = "none"
  /\ \E i, j \in DOMAIN trans :
       /\ trans[i].type = "INCOME" /\ trans[i].date = now
       /\ trans[j].type = "EXPENSE" /\ trans[j].date = now
  /\ ev.ret[1].monthly_avg_income.num = 0

\* The stored transactions dated at or after the cutoff of a report over
\* months made now.
InWindow(months) == {i \in DOMAIN trans : trans[i].date >= now - months * MonthDays}

\* C11: a report made while storage does not fail gives, over the stored
\* transactions dated at or after the cutoff, total_income = the sum of the
\* INCOME amounts, total_expense = the sum of the EXPENSE amounts and
\* expense_by_category = per category of an EXPENSE transaction the sum of
\* those of that category, whose values sum to total_expense.
C11_ReportTotals ==
  (ev.op = "get_financial_data_for_ai" /\ ev.step = "transactions" /\ ev.fail = "none") =>
    /\ ev.status = "ok"
    /\ LET r == ev.ret[1]
           w == InWindow(ev.args.months)
           ex == {i \in w : trans[i].type = "EXPENSE"}
           byCat == r.expense_by_category
       IN /\ r.total_income =
               SumOver([i \in w |-> IF trans[i].type = "INCOME" THEN trans[i].amount ELSE 0], w)
          /\ r.total_expense = SumOver([i \in ex |-> trans[i].amount], ex)
          /\ DOMAIN byCat = {trans[i].category : i \in ex}
          /\ \A c \in DOMAIN byCat :
               byCat[c] = SumOver([i \in ex |-> IF trans[i].category = c
                                                THEN trans[i].amount ELSE 0], ex)
          /\ SumOver(byCat, DOMAIN byCat) = r.total_expense

\* C12: a step in which storage fails raises to its caller, unless it is the
\* transaction retrieval of get_financial_data_for_ai: no other step turns a
\* failure into a value it returns or goes on with.
C12_OnlyReportAbsorbs ==
  (ev.fail # "none" /\ ~(ev.op = "get_financial_data_for_ai" /\ ev.step = "transactions"))
    => ev.raised

\* C13: while a caller is between the write of a repository method
\* (SavingsGoal.create, update, add_amount) and the read that ends it, no
\* step changes the stored record of the goal the method wrote, so that the
\* read returns the record as the method's own write left it.
C13_RepositoryMethodAtomic ==
  [][\A p \in Procs :
       pc[p] \in {"create_reload", "update_reload", "add_reload"} =>
         SelectGoalById(goals', loc[p].args.id) = SelectGoalById(goals, loc[p].args.id)]_vars

\* The other of the two callers.
Other(p) == CHOOSE q \in Procs : q # p

\* C14 (as stated): the write of SavingsGoal.update stores the full row
\* computed from the row the caller read before it, so that a value another
\* caller wrote in between is lost.
C14_UpdateWritesFullRow ==
  [][\A p \in Procs :
       (pc[p] = "update_write" /\ pc'[p] = "update_reload"
        /\ loc[p].args.id \in DOMAIN goals) =>
         LET a == loc[p].args IN
         goals'[a.id] = UpdateGoalRow(loc[p].got[1], a.name, a.target, a.current, a.deadline, now)]_vars

\* C14 (amended): once two concurrent SavingsGoal.update calls on the same
\* stored goal have both written, no goal being deleted meanwhile, the row
\* holds every value that one of them supplied and the other did not: no
\* update is lost.
C14_BothUpdatesKept ==
  \A p \in Procs :
    LET a == loc[p].args
        b == loc[Other(p)].args
    IN (/\ pc[p] = "update_reload" /\ pc[Other(p)] = "update_reload"
        /\ a.id = b.id /\ a.id \in DOMAIN goals) =>
         /\ (a.name # None /\ b.name = None) => goals[a.id].name = a.name[1]
         /\ (a.target # None /\ b.target = None) => goals[a.id].targetAmount = a.target[1]
         /\ (a.current # None /\ b.current = None) => goals[a.id].currentAmount = a.current[1]
         /\ (a.deadline # None /\ b.deadline = None) => goals[a.id].deadline = a.deadline

\* Both callers looked the goal up before either wrote; one wrote the name,
\* the other the targetAmount, and the row holds both.
C14_Witness ==
  /\ pc["p1"] = "update_reload" /\ pc["p2"] = "update_reload"
  /\ loc["p1"].args.id = 1 /\ loc["p2"].args.id = 1
  /\ loc["p1"].args.name = Some(<<"b">>) /\ loc["p1"].args.target = None
  /\ loc["p2"].args.name = None /\ loc["p2"].args.target = Some(2)
  /\ loc["p1"].got = loc["p2"].got
  /\ 1 \in DOMAIN goals
  /\ goals[1].name = <<"b">> /\ goals[1].targetAmount = 2

\* The stored goals an owner filter asks for: all of them when it is absent,
\* those of that owner otherwise.
Matching(user) ==
  IF user = None THEN DOMAIN goals ELSE {g \in DOMAIN goals : goals[g].userId = user}

C16_CurrentAmountChanges ==
  /\ [](\A g \in DOMAIN goals : goals[g].currentAmount >= 0)
  /\ [][\A g \in DOMAIN goals \cap DOMAIN goals' :
          goals'[g].currentAmount # goals[g].currentAmount =>
            \/ /\ ev'.op = "add_amount_to_goal" /\ ev'.step = "write"
               /\ ev'.args.id = g /\ ev'.args.amount > 0
               /\ goals'[g].currentAmount = goals[g].currentAmount + ev'.args.amount
            \/ /\ ev'.op = "update_goal" /\ ev'.step = "write"
               /\ loc[ev'.proc].args.id = g
               /\ loc[ev'.proc].args.current # None
               /\ goals'[g].currentAmount = loc[ev'.proc].args.current[1]]_vars

\* C17: every stored goal is stored under its identifier with
\* updatedAt >= createdAt; the INSERT of create_goal stores createdAt =
\* updatedAt; no step changes the identifier or createdAt of a goal that
\* stays stored; the write of update_goal and of add_amount_to_goal sets the
\* goal's updatedAt to the time of the step; and a delete_goal that succeeds
\* leaves find_by_id of its identifier absent and every other goal as it was.
C17_Lifecycle ==
  /\ [](\A g \in DOMAIN goals :
          goals[g].id = g /\ goals[g].updatedAt >= goals[g].createdAt)
  /\ [][/\ \A g \in DOMAIN goals \cap DOMAIN goals' :
             goals'[g].id = goals[g].id /\ goals'[g].createdAt = goals[g].createdAt
        /\ \A p \in Procs :
             /\ (pc[p] = "idle" /\ pc'[p] = "create_reload") =>
                  LET g == loc'[p].args.id IN
                  /\ g \in DOMAIN goals' \ DOMAIN goals
                  /\ goals'[g].createdAt = now /\ goals'[g].updatedAt = now
             /\ (/\ \/ pc[p] = "update_write" /\ pc'[p] = "update_reload"
                    \/ pc[p] = "idle" /\ pc'[p] = "add_reload"
                 /\ loc'[p].args.id \in DOMAIN goals) =>
                  /\ loc'[p].args.id \in DOMAIN goals'
                  /\ goals'[loc'[p].args.id].updatedAt = now
             /\ (pc[p] = "delete_write" /\ pc'[p] = "idle" /\ ev'.status = "ok") =>
                  /\ SelectGoalById(goals', loc[p].args.id) = None
                  /\ \A g \in DOMAIN goals \ {loc[p].args.id} :
                       g \in DOMAIN goals' /\ goals'[g] = goals[g]]_vars

\* Goal 1 was deleted; goal 2, deposited into after the clock moved, is
\* still stored.
C17_Witness ==
  /\ ev.op = "delete_goal" /\ ev.step = "write" /\ ev.status = "ok"
  /\ ev.args.id = 1
  /\ DOMAIN goals = {2}
  /\ goals[2].currentAmount > 0
  /\ goals[2].updatedAt > goals[2].createdAt

\* C18: the goals of a summary are all the stored goals when the owner
\* filter is absent and, when a filter value is supplied, whatever it is,
\* exactly the stored goals of that owner.
C18_FilterExact ==
  (ev.op = "get_summary" /\ ev.status = "ok") =>
    {ev.ret[1].goals[k].goal.id : k \in DOMAIN ev.ret[1].goals} = Matching(ev.args.user)

\* C19: with update_goal and delete_goal calls interleaved on one
\* identifier, an update_goal that returns returns the record of the goal
\* it was asked to update, never an absent result; and the step in which a
\* delete_goal ends in a not-found error removes no goal.
C19_UpdateOutcomes ==
  /\ []((ev.op = "update_goal" /\ ev.step = "reload" /\ ev.status = "ok") =>
          ev.ret # None /\ ev.ret[1].id = ev.args.id)
  /\ [][(ev'.op = "delete_goal" /\ ev'.status = "NotFoundError") => goals' = goals]_vars

\* C20: calculate_progress of a stored goal with targetAmount > 0 is complete
\* exactly when its remaining is 0 and exactly when its progress is 100; and
\* calculate_progress of any stored goal that is complete has progress 100.
C20_OutputsAgree ==
  \A g \in DOMAIN goals :
    LET r == calculate_progress(goals[g]) IN
    /\ goals[g].targetAmount > 0 =>
         /\ r.isComplete <=> r.remaining = 0
         /\ r.isComplete <=> r.progress = 1000
    /\ r.isComplete => r.progress = 1000

====
